---- MODULE Spec2Model ----
(***************************************************************************)
(* Model of the ride-data preprocessing pipeline                           *)
(* (scripts/data-preprocessing/ride_data/ride_data_preprocessing.py) and   *)
(* of the chunked Parquet merge (ride_data/parquet_combiner.py).           *)
(*                                                                         *)
(* A DataFrame is a record [columns, rows]: columns is the set of column   *)
(* names, rows the sequence of rows, each row a function from the columns  *)
(* (plus the ghost key "idx", the position of the trip in the input file)  *)
(* to cell values.  Floating point cells are tuples: <<"NaN">>,            *)
(* <<"inf", sign>> or <<"fin", num, den>> (a reduced fraction).            *)
(***************************************************************************)
EXTENDS Integers, Sequences, FiniteSets, TLC

VARIABLES
    pc,            \* position of main() in the pipeline
    parquet_file,  \* content of the input Parquet file (a DataFrame)
    shape_file,    \* content of the Taxi Zone shapefile (sequence of zone records)
    final_data,    \* the DataFrame main() currently holds
    log,           \* records emitted through logging.*
    error,         \* the exception that ended main() and the call that raised it
    written,       \* output files that exist: subset of {"csv", "parquet"}
    attempted,     \* output writes that were started
    mpc,            \* position of merge_parquet_in_chunks
    parquet_files,  \* the source partitions, in the order of the file list
    files_per_chunk, \* the chunk_size argument of merge_parquet_in_chunks
    offset,         \* the loop variable i: offset of the next chunk
    chunked_frames, \* the collected chunks held in memory
    temp_dir,       \* intermediate files: set of [name, frame]
    temp_dir_exists, \* whether data/temp has been created
    stdout,         \* the lines merge_parquet_in_chunks has printed
    output_file,    \* the final merged file: a sequence holding the frame, or <<>>
    merge_error     \* the exception that ended the merge, or "none"

pipevars == <<pc, parquet_file, shape_file, final_data, log, error, written, attempted>>

mergevars == <<mpc, parquet_files, files_per_chunk, offset, chunked_frames, temp_dir,
               temp_dir_exists, stdout, output_file, merge_error>>

vars == <<pipevars, mergevars>>

-----------------------------------------------------------------------------
(* Bounds of the model *)

MaxTrips == 2

MaxZones == 2

MaxMissing == 1

MaxParts == 3

MaxChunk == 3

MaxBatch == 2

-----------------------------------------------------------------------------
(* Generic helpers *)

SeqsUpTo(S, n) == UNION {[1..k -> S] : k \in 0..n}

RECURSIVE GCD(_, _)
GCD(a, b) == IF b = 0 THEN a ELSE GCD(b, a % b)

Abs(a) == IF a < 0 THEN -a ELSE a

NaN == <<"NaN">>

Inf(sign) == <<"inf", sign>>

\* The float n/d for d # 0, as a reduced fraction with a positive denominator.
Fin(n, d) ==
    LET g == GCD(Abs(n), Abs(d))
        s == IF d < 0 THEN -1 ELSE 1
    IN  <<"fin", (s * n) \div g, Abs(d) \div g>>

\* A variant that guards the division and yields 0 for a zero divisor.
FloatDivZeroGuard(a, b) == IF b = 0 THEN Fin(0, 1) ELSE Fin(a, b)

\* IEEE-754 division of the numbers a and b, as numpy does it for float64 columns.
FloatDiv(a, b) ==
    IF b = 0
    THEN IF a = 0 THEN NaN ELSE Inf(IF a < 0 THEN -1 ELSE 1)
    ELSE Fin(a, b)

IsNa(v) == v = NaN

NoData == [columns |-> {}, rows |-> <<>>, none |-> TRUE]

DataFrame(cols, rows) == [columns |-> cols, rows |-> rows, none |-> FALSE]

RECURSIVE FlattenSeq(_)
FlattenSeq(ss) == IF ss = <<>> THEN <<>> ELSE Head(ss) \o FlattenSeq(Tail(ss))

-----------------------------------------------------------------------------
(* Columns *)

required_columns ==
    {"PULocationID", "DOLocationID", "pickup_datetime", "dropoff_datetime", "trip_miles"}

columns_to_drop ==
    {"hvfhs_license_num", "dispatching_base_num", "originating_base_num", "trip_time",
     "shared_request_flag", "shared_match_flag", "access_a_ride_flag",
     "wav_request_flag", "wav_match_flag", "LocationID_x", "LocationID_y",
     "on_scene_datetime"}

\* The columns of a complete trip file: the required ones, the request
\* timestamp, and the administrative columns feature_engineering removes.
AllRawColumns ==
    required_columns \cup {"request_datetime"}
        \cup (columns_to_drop \ {"LocationID_x", "LocationID_y"})

ColumnChoices ==
    {AllRawColumns \ m : m \in {s \in SUBSET AllRawColumns : Cardinality(s) <= MaxMissing}}

-----------------------------------------------------------------------------
(* Inputs *)

ZoneIds == {1, 2}

NoGeom == <<>>

\* Axis-aligned rectangles <<x0, y0, x1, y1>>, or no geometry at all.
Geoms == {NoGeom, <<0, 0, 1, 1>>, <<2, 0, 6, 4>>}

ZoneRecords == [LocationID : ZoneIds, geometry : Geoms]

ZoneTables == SeqsUpTo(ZoneRecords, MaxZones)

NominalZones ==
    << [LocationID |-> 1, geometry |-> <<0, 0, 1, 1>>],
       [LocationID |-> 2, geometry |-> <<2, 0, 6, 4>>] >>

\* Timestamps are seconds since a Monday 00:00.
Trips ==
    [PU : ZoneIds, DO : ZoneIds, pickup : {36000}, dropoff : {36600},
     request : {35880}, miles : {5}]

TripLists == SeqsUpTo(Trips, MaxTrips)

\* Trips whose duration is 0 or 600 seconds and whose distance is 0 or 5 miles.
TimedTrips ==
    [PU : ZoneIds, DO : ZoneIds, pickup : {36000}, dropoff : {36000, 36600},
     request : {35880}, miles : {0, 5}]

TimedTripLists == SeqsUpTo(TimedTrips, MaxTrips)

CellOf(t, c) ==
    CASE c = "PULocationID" -> t.PU
      [] c = "DOLocationID" -> t.DO
      [] c = "pickup_datetime" -> t.pickup
      [] c = "dropoff_datetime" -> t.dropoff
      [] c = "request_datetime" -> t.request
      [] c = "trip_miles" -> t.miles
      [] OTHER -> 0

RawRow(t, i, cols) == [c \in cols \cup {"idx"} |-> IF c = "idx" THEN i ELSE CellOf(t, c)]

RawFrame(trips, cols) ==
    DataFrame(cols, [i \in 1..Len(trips) |-> RawRow(trips[i], i, cols)])

-----------------------------------------------------------------------------
(* Logging *)

LogRec(level, msg, args) == [level |-> level, msg |-> msg, args |-> args]

-----------------------------------------------------------------------------
(* validate_input_columns *)

missing_columns(ride_data) == required_columns \ ride_data.columns

-----------------------------------------------------------------------------
(* map_zone_ids_to_coords *)

chunk_size == 100000

\* geometry.centroid: the centre of the rectangle; a missing geometry has a
\* centroid whose x and y are NaN.
Centroid(g) ==
    IF g = NoGeom
    THEN [x |-> NaN, y |-> NaN]
    ELSE [x |-> Fin(g[1] + g[3], 2), y |-> Fin(g[2] + g[4], 2)]

\* taxi_zones[["LocationID", "geometry"]] with the four centroid columns.
taxi_zones_combined(taxi_zones) ==
    [i \in 1..Len(taxi_zones) |->
        [LocationID  |-> taxi_zones[i].LocationID,
         geometry    |-> taxi_zones[i].geometry,
         pickup_lat  |-> Centroid(taxi_zones[i].geometry).y,
         pickup_lon  |-> Centroid(taxi_zones[i].geometry).x,
         dropoff_lat |-> Centroid(taxi_zones[i].geometry).y,
         dropoff_lon |-> Centroid(taxi_zones[i].geometry).x]]

valid_ids(tzc) == {tzc[i].LocationID : i \in 1..Len(tzc)}

\* ride_data[PULocationID.isin(valid_ids) & DOLocationID.isin(valid_ids)]
FilterValid(ride_data, ids) ==
    DataFrame(ride_data.columns,
              SelectSeq(ride_data.rows,
                        LAMBDA r : r["PULocationID"] \in ids /\ r["DOLocationID"] \in ids))

\* tzc[[cols]]: the projection of the zone table on the given columns.
Project(tzc, cols) ==
    DataFrame(cols, [i \in 1..Len(tzc) |-> [c \in cols |-> tzc[i][c]]])

\* The rows of the (left) join of one left row with the right table: one row
\* per matching right row, in the right table's order, or a single row with
\* null right cells when nothing matches.
JoinRow(l, right, left_on, right_on, lcols, overlap) ==
    LET outl == {IF c \in overlap THEN c \o "_x" ELSE c : c \in lcols}
        outr == {IF c \in overlap THEN c \o "_y" ELSE c : c \in right.columns}
        lsrc(n) == CHOOSE c \in lcols : n = (IF c \in overlap THEN c \o "_x" ELSE c)
        rsrc(n) == CHOOSE c \in right.columns : n = (IF c \in overlap THEN c \o "_y" ELSE c)
        matches == SelectSeq(right.rows, LAMBDA r : r[right_on] = l[left_on])
        joined(r) == [n \in outl \cup outr \cup {"idx"} |->
                        IF n = "idx" THEN l["idx"]
                        ELSE IF n \in outl THEN l[lsrc(n)] ELSE r[rsrc(n)]]
        nulls == [n \in outl \cup outr \cup {"idx"} |->
                        IF n = "idx" THEN l["idx"]
                        ELSE IF n \in outl THEN l[lsrc(n)] ELSE NaN]
    IN  IF matches = <<>> THEN <<nulls>>
        ELSE [k \in 1..Len(matches) |-> joined(matches[k])]

\* left.merge(right, left_on=..., right_on=..., how="left"): the left rows in
\* their order; columns present on both sides get the suffixes _x and _y.
MergeLeft(left, right, left_on, right_on) ==
    LET overlap == left.columns \cap right.columns
        outcols == {IF c \in overlap THEN c \o "_x" ELSE c : c \in left.columns}
                   \cup {IF c \in overlap THEN c \o "_y" ELSE c : c \in right.columns}
    IN  DataFrame(outcols,
                  FlattenSeq([i \in 1..Len(left.rows) |->
                      JoinRow(left.rows[i], right, left_on, right_on,
                              left.columns, overlap)]))

\* ride_data.iloc[i:i + size], for the 0-based offset i.
Iloc(df, i, size) ==
    DataFrame(df.columns,
              SubSeq(df.rows, i + 1, IF i + size < Len(df.rows) THEN i + size
                                                                ELSE Len(df.rows)))

\* The body of the chunk loop: both joins of one chunk.
chunk_final_data(chunk, tzc) ==
    MergeLeft(
        MergeLeft(chunk, Project(tzc, {"LocationID", "pickup_lat", "pickup_lon"}),
                  "PULocationID", "LocationID"),
        Project(tzc, {"LocationID", "dropoff_lat", "dropoff_lon"}),
        "DOLocationID", "LocationID")

\* range(0, n, size) as the sequence of its values.
Range0(n, size) == [k \in 1..((n + size - 1) \div size) |-> (k - 1) * size]

\* The list `chunks` when the loop ends.
MapChunks(ride_data, tzc, size) ==
    LET starts == Range0(Len(ride_data.rows), size)
    IN  [k \in 1..Len(starts) |-> chunk_final_data(Iloc(ride_data, starts[k], size), tzc)]

\* pd.concat(chunks, ignore_index=True); an empty list raises ValueError.
PdConcat(chunks) ==
    DataFrame(UNION {chunks[k].columns : k \in 1..Len(chunks)},
              FlattenSeq([k \in 1..Len(chunks) |-> chunks[k].rows]))

\* map_zone_ids_to_coords: [ok, err, df].
MapZoneIdsToCoordsSized(ride_data, taxi_zones, size) ==
    LET tzc    == taxi_zones_combined(taxi_zones)
        kept   == FilterValid(ride_data, valid_ids(tzc))
        chunks == MapChunks(kept, tzc, size)
    IN  IF chunks = <<>>
        THEN [ok |-> FALSE, err |-> "ValueError", df |-> NoData]
        ELSE [ok |-> TRUE, err |-> "none", df |-> PdConcat(chunks)]

map_zone_ids_to_coords(ride_data, taxi_zones) ==
    MapZoneIdsToCoordsSized(ride_data, taxi_zones, chunk_size)

-----------------------------------------------------------------------------
(* validate_data *)

CountNa(df, col) == Cardinality({i \in 1..Len(df.rows) : IsNa(df.rows[i][col])})

missing_pickup(df) == CountNa(df, "pickup_lat")

missing_dropoff(df) == CountNa(df, "dropoff_lat")

\* final_data.dropna(subset=[...])
DropNa(df, subset) ==
    DataFrame(df.columns,
              SelectSeq(df.rows, LAMBDA r : \A c \in subset : ~IsNa(r[c])))

\* A variant that handles the two counts in an if/elif chain.
validate_data_elif(df) ==
    IF missing_pickup(df) > 0
    THEN DropNa(df, {"pickup_lat"})
    ELSE IF missing_dropoff(df) > 0
    THEN DropNa(df, {"dropoff_lat"})
    ELSE df

validate_data(df) ==
    IF missing_pickup(df) > 0 \/ missing_dropoff(df) > 0
    THEN DropNa(df, {"pickup_lat", "dropoff_lat"})
    ELSE df

\* What validate_data logs.
validate_data_log(df) ==
    <<LogRec("info", "validating", <<>>)>> \o
    (IF missing_pickup(df) > 0 \/ missing_dropoff(df) > 0
     THEN <<LogRec("warning", "rows missing coord",
                   <<missing_pickup(df), missing_dropoff(df)>>)>>
     ELSE <<>>)

-----------------------------------------------------------------------------
(* feature_engineering *)

\* The columns lines 150-154 read, in the order they are read.
FeatureInputs ==
    <<"dropoff_datetime", "pickup_datetime", "request_datetime", "trip_miles">>

FeatureRow(r) ==
    LET dur == r["dropoff_datetime"] - r["pickup_datetime"]
    IN  ("trip_duration" :> dur)
        @@ ("wait_time" :> r["pickup_datetime"] - r["request_datetime"])
        @@ ("avg_speed" :> FloatDiv(r["trip_miles"] * 3600, dur))
        @@ ("pickup_hour" :> (r["pickup_datetime"] \div 3600) % 24)
        @@ ("pickup_day_of_week" :> (r["pickup_datetime"] \div 86400) % 7)
        @@ r

DropColumns(r, cols) == [c \in (DOMAIN r) \ cols |-> r[c]]

\* A variant whose drop ignores absent columns (drop(..., errors="ignore")).
feature_engineering_ignore(df) ==
    IF \E k \in 1..Len(FeatureInputs) : FeatureInputs[k] \notin df.columns
    THEN [ok |-> FALSE, err |-> "KeyError", df |-> NoData]
    ELSE [ok |-> TRUE, err |-> "none",
          df |-> DataFrame(
                    (df.columns \cup {"trip_duration", "wait_time", "avg_speed",
                                      "pickup_hour", "pickup_day_of_week"})
                        \ columns_to_drop,
                    [i \in 1..Len(df.rows) |->
                        DropColumns(FeatureRow(df.rows[i]), columns_to_drop)])]

\* feature_engineering: [ok, err, df]; a column that is read or dropped and
\* is not there raises KeyError.
feature_engineering(df) ==
    IF \E k \in 1..Len(FeatureInputs) : FeatureInputs[k] \notin df.columns
    THEN [ok |-> FALSE, err |-> "KeyError", df |-> NoData]
    ELSE IF columns_to_drop \ df.columns # {}
    THEN [ok |-> FALSE, err |-> "KeyError", df |-> NoData]
    ELSE [ok |-> TRUE, err |-> "none",
          df |-> DataFrame(
                    (df.columns \cup {"trip_duration", "wait_time", "avg_speed",
                                      "pickup_hour", "pickup_day_of_week"})
                        \ columns_to_drop,
                    [i \in 1..Len(df.rows) |->
                        DropColumns(FeatureRow(df.rows[i]), columns_to_drop)])]

-----------------------------------------------------------------------------
(* main: one action per call *)

NoError == [type |-> "none", at |-> "none"]

Raised(type, at) == [type |-> type, at |-> at]

\* The inputs: every column choice over the nominal zone table, and every
\* zone table under the complete column set.
PipeInit ==
    /\ pc = "load_parquet"
    /\ \E trips \in TripLists, cols \in ColumnChoices, zones \in ZoneTables :
          /\ cols = AllRawColumns \/ zones = NominalZones
          /\ parquet_file = RawFrame(trips, cols)
          /\ shape_file = zones
    /\ final_data = NoData
    /\ log = <<>>
    /\ error = NoError
    /\ written = {}
    /\ attempted = {}

Abort(type, at, entries) ==
    /\ pc' = "aborted"
    /\ error' = Raised(type, at)
    /\ log' = log \o entries
    /\ UNCHANGED <<parquet_file, shape_file, final_data, written, attempted, mergevars>>

\* raw_data = load_parquet(parquet_file)
LoadParquet ==
    /\ pc = "load_parquet"
    /\ \E found \in BOOLEAN :
          IF found
          THEN /\ pc' = "validate_input_columns"
               /\ final_data' = parquet_file
               /\ log' = log \o <<LogRec("info", "loading parquet", <<>>),
                                  LogRec("info", "parquet loaded", <<>>)>>
               /\ UNCHANGED <<parquet_file, shape_file, error, written, attempted, mergevars>>
          ELSE Abort("FileNotFoundError", "load_parquet",
                     <<LogRec("info", "loading parquet", <<>>),
                       LogRec("error", "file not found", <<>>)>>)

\* validate_input_columns(raw_data, required_columns)
ValidateInputColumns ==
    /\ pc = "validate_input_columns"
    /\ IF missing_columns(final_data) # {}
       THEN Abort("ValueError", "validate_input_columns",
                  <<LogRec("error", "missing required columns",
                           <<missing_columns(final_data)>>)>>)
       ELSE /\ pc' = "load_shapefile"
            /\ UNCHANGED <<parquet_file, shape_file, final_data, log, error,
                           written, attempted, mergevars>>

\* taxi_zones = load_shapefile(shapefile_path)
LoadShapefile ==
    /\ pc = "load_shapefile"
    /\ \E found \in BOOLEAN :
          IF found
          THEN /\ pc' = "map_zone_ids_to_coords"
               /\ log' = log \o <<LogRec("info", "loading shapefile", <<>>),
                                  LogRec("info", "shapefile loaded", <<>>)>>
               /\ UNCHANGED <<parquet_file, shape_file, final_data, error,
                              written, attempted, mergevars>>
          ELSE Abort("FileNotFoundError", "load_shapefile",
                     <<LogRec("info", "loading shapefile", <<>>),
                       LogRec("error", "shapefile not found", <<>>)>>)

\* final_data = map_zone_ids_to_coords(raw_data, taxi_zones)
MapZoneIdsToCoords ==
    /\ pc = "map_zone_ids_to_coords"
    /\ LET res == map_zone_ids_to_coords(final_data, shape_file)
       IN  IF res.ok
           THEN /\ pc' = "validate_data"
                /\ final_data' = res.df
                /\ log' = log \o <<LogRec("info", "mapping", <<>>),
                                   LogRec("info", "mapping completed", <<>>)>>
                /\ UNCHANGED <<parquet_file, shape_file, error, written, attempted, mergevars>>
           ELSE Abort(res.err, "map_zone_ids_to_coords",
                      <<LogRec("info", "mapping", <<>>)>>)

\* final_data = validate_data(final_data)
ValidateData ==
    /\ pc = "validate_data"
    /\ pc' = "feature_engineering"
    /\ final_data' = validate_data(final_data)
    /\ log' = log \o validate_data_log(final_data)
    /\ UNCHANGED <<parquet_file, shape_file, error, written, attempted, mergevars>>

\* final_data = feature_engineering(final_data)
FeatureEngineering ==
    /\ pc = "feature_engineering"
    /\ LET res == feature_engineering(final_data)
       IN  IF res.ok
           THEN /\ pc' = "save_data"
                /\ final_data' = res.df
                /\ log' = log \o <<LogRec("info", "adding features", <<>>),
                                   LogRec("info", "removing features", <<>>),
                                   LogRec("info", "feature engineering done", <<>>)>>
                /\ UNCHANGED <<parquet_file, shape_file, error, written, attempted, mergevars>>
           ELSE Abort(res.err, "feature_engineering",
                      <<LogRec("info", "adding features", <<>>)>>)

\* save_data(final_data, output_csv, output_parquet): to_csv, then to_parquet;
\* either write can fail with OSError, which save_data does not catch.
save_data(csv_ok, parquet_ok) ==
    IF ~csv_ok
    THEN [attempted |-> {"csv"}, written |-> {},
          error |-> Raised("OSError", "to_csv"), pc |-> "aborted",
          log |-> <<LogRec("info", "saving", <<>>)>>]
    ELSE IF ~parquet_ok
    THEN [attempted |-> {"csv", "parquet"}, written |-> {"csv"},
          error |-> Raised("OSError", "to_parquet"), pc |-> "aborted",
          log |-> <<LogRec("info", "saving", <<>>),
                    LogRec("info", "CSV saved", <<>>)>>]
    ELSE [attempted |-> {"csv", "parquet"}, written |-> {"csv", "parquet"},
          error |-> NoError, pc |-> "done",
          log |-> <<LogRec("info", "saving", <<>>),
                    LogRec("info", "CSV saved", <<>>),
                    LogRec("info", "Parquet saved", <<>>),
                    LogRec("info", "preprocessing completed", <<>>)>>]

SaveData ==
    /\ pc = "save_data"
    /\ \E csv_ok \in BOOLEAN, parquet_ok \in BOOLEAN :
          LET res == save_data(csv_ok, parquet_ok)
          IN  /\ pc' = res.pc
              /\ error' = res.error
              /\ attempted' = res.attempted
              /\ written' = res.written
              /\ log' = log \o res.log
              /\ UNCHANGED <<parquet_file, shape_file, final_data, mergevars>>

-----------------------------------------------------------------------------
(* parquet_combiner.py: merge_parquet_in_chunks *)

\* The schemas a source partition can have: column -> dtype.
Schemas ==
    { [PULocationID |-> "Int64", DOLocationID |-> "Int64", trip_miles |-> "Float64"],
      [PULocationID |-> "Int32", DOLocationID |-> "Int32", trip_miles |-> "Float64"],
      [DOLocationID |-> "Int64", trip_miles |-> "Float64"],
      [PULocationID |-> "Int64", trip_miles |-> "Float64"],
      [PULocationID |-> "Int64", DOLocationID |-> "Int32"] }

RowCounts == {0, 2}

PartitionKinds == [schema : Schemas, nrows : RowCounts]

\* pl.scan_parquet(file): the partition as a frame [schema, rows]; a row holds
\* its origin (partition, position) and one cell <<dtype, value>> per column.
scan_parquet(file) ==
    [schema |-> file.schema,
     rows   |-> [k \in 1..file.nrows |->
                    [src   |-> <<file.name, k>>,
                     cells |-> [c \in DOMAIN file.schema |->
                                  <<file.schema[c], 10 * file.name + k>>]]]]

IdColumns == {"PULocationID", "DOLocationID"}

\* pl.col(c).cast(pl.Int64) on one cell.
CastInt64(cell) == <<"Int64", cell[2]>>

\* .with_columns(PULocationID.cast(Int64), DOLocationID.cast(Int64)):
\* [ok, err, frame]; a missing column raises ColumnNotFoundError on collect.
with_columns_cast(lf) ==
    IF ~(IdColumns \subseteq DOMAIN lf.schema)
    THEN [ok |-> FALSE, err |-> "ColumnNotFoundError", frame |-> lf]
    ELSE [ok |-> TRUE, err |-> "none",
          frame |->
            [schema |-> [c \in DOMAIN lf.schema |->
                            IF c \in IdColumns THEN "Int64" ELSE lf.schema[c]],
             rows   |-> [k \in 1..Len(lf.rows) |->
                            [src   |-> lf.rows[k].src,
                             cells |-> [c \in DOMAIN lf.schema |->
                                          IF c \in IdColumns
                                          THEN CastInt64(lf.rows[k].cells[c])
                                          ELSE lf.rows[k].cells[c]]]]]]

\* pl.concat(frames) (vertical): [ok, err, frame]; the frames must share one
\* schema, and an empty list is an error.
pl_concat(frames) ==
    IF frames = <<>>
    THEN [ok |-> FALSE, err |-> "ValueError", frame |-> <<>>]
    ELSE IF \E k \in 1..Len(frames) : frames[k].schema # frames[1].schema
    THEN [ok |-> FALSE, err |-> "SchemaError", frame |-> <<>>]
    ELSE [ok |-> TRUE, err |-> "none",
          frame |-> [schema |-> frames[1].schema,
                     rows   |-> FlattenSeq([k \in 1..Len(frames) |-> frames[k].rows])]]

\* parquet_files[i:i + chunk_size]
files_chunk(files, off, size) ==
    SubSeq(files, off + 1, IF off + size < Len(files) THEN off + size ELSE Len(files))

\* pl.concat(lazy_frames).collect(): [ok, err, frame].
collected_chunk(files) ==
    LET lazy_frames == [k \in 1..Len(files) |-> with_columns_cast(scan_parquet(files[k]))]
    IN  IF \E k \in 1..Len(files) : ~lazy_frames[k].ok
        THEN [ok |-> FALSE, err |-> "ColumnNotFoundError", frame |-> <<>>]
        ELSE pl_concat([k \in 1..Len(files) |-> lazy_frames[k].frame])

\* A variant that puts the new chunk in front (chunked_frames.insert(0, ...)).
PrependChunk(frames, chunk) == <<chunk>> \o frames

\* chunked_frames.append(collected_chunk)
AppendChunk(frames, chunk) == Append(frames, chunk)

MergeIdle ==
    /\ mpc = "idle"
    /\ parquet_files = <<>>
    /\ files_per_chunk = 1
    /\ offset = 0
    /\ chunked_frames = <<>>
    /\ temp_dir = {}
    /\ temp_dir_exists = FALSE
    /\ stdout = <<>>
    /\ output_file = <<>>
    /\ merge_error = "none"

PipeIdle ==
    /\ pc = "idle"
    /\ parquet_file = NoData
    /\ shape_file = <<>>
    /\ final_data = NoData
    /\ log = <<>>
    /\ error = NoError
    /\ written = {}
    /\ attempted = {}

MergeInit ==
    /\ mpc = "start"
    /\ \E kinds \in SeqsUpTo(PartitionKinds, MaxParts) :
          parquet_files = [p \in 1..Len(kinds) |->
                              [name |-> p, schema |-> kinds[p].schema,
                               nrows |-> kinds[p].nrows]]
    /\ files_per_chunk \in 1..MaxChunk
    /\ offset = 0
    /\ chunked_frames = <<>>
    /\ temp_dir = {}
    /\ temp_dir_exists = FALSE
    /\ stdout = <<>>
    /\ output_file = <<>>
    /\ merge_error = "none"
    /\ PipeIdle

\* print(...): one printed line, with the values it interpolates.
Printed(msg, args) == [msg |-> msg, args |-> args]

\* A variant that gives every intermediate file the same name.
chunk_file_fixed(off) == 0

\* temp_dir / f"processed_chunk_{i}.parquet": the file is named by the offset.
chunk_file(off) == off

\* frame.write_parquet(path): the file at that path now holds the frame.
write_parquet(dir, name, frame) ==
    {f \in dir : f.name # name} \cup {[name |-> name, frame |-> frame]}

\* A variant of lines 20-32 without the early return for an empty file list.
MergeStartNoReturn ==
    /\ mpc = "start"
    /\ mpc' = "loop"
    /\ stdout' = stdout \o <<Printed("found files", <<Len(parquet_files), files_per_chunk>>)>>
    /\ temp_dir_exists' = TRUE
    /\ UNCHANGED <<parquet_files, files_per_chunk, offset, chunked_frames, temp_dir,
                   output_file, merge_error, pipevars>>

\* Lines 20-32: list the files; return when there are none, else make the
\* temp directory and enter the loop.
MergeStart ==
    /\ mpc = "start"
    /\ IF parquet_files = <<>>
       THEN /\ mpc' = "returned"
            /\ stdout' = stdout \o <<Printed("no files found", <<>>)>>
            /\ UNCHANGED temp_dir_exists
       ELSE /\ mpc' = "loop"
            /\ stdout' = stdout \o
                  <<Printed("found files", <<Len(parquet_files), files_per_chunk>>)>>
            /\ temp_dir_exists' = TRUE
    /\ UNCHANGED <<parquet_files, files_per_chunk, offset, chunked_frames, temp_dir,
                   output_file, merge_error, pipevars>>

\* One iteration of the loop of lines 33-57.  The slice of a loop offset is
\* never empty, so the "empty chunk" branch of line 35 is never taken.
ProcessChunk ==
    /\ mpc = "loop"
    /\ offset < Len(parquet_files)
    /\ LET files == files_chunk(parquet_files, offset, files_per_chunk)
           res   == collected_chunk(files)
           k     == offset \div files_per_chunk + 1
       IN  IF res.ok
           THEN /\ temp_dir' = write_parquet(temp_dir, chunk_file(offset), res.frame)
                /\ chunked_frames' = AppendChunk(chunked_frames, res.frame)
                /\ offset' = offset + files_per_chunk
                /\ stdout' = stdout \o <<Printed("processing chunk", <<k, Len(files)>>),
                                         Printed("finished chunk", <<k, chunk_file(offset)>>)>>
                /\ UNCHANGED <<mpc, merge_error>>
           ELSE /\ mpc' = "aborted"
                /\ merge_error' = res.err
                /\ stdout' = stdout \o <<Printed("processing chunk", <<k, Len(files)>>)>>
                /\ UNCHANGED <<temp_dir, chunked_frames, offset>>
    /\ UNCHANGED <<parquet_files, files_per_chunk, temp_dir_exists, output_file, pipevars>>

\* Lines 59-65: concatenate the chunks and write the merged file.
FinalMerge ==
    /\ mpc = "loop"
    /\ offset >= Len(parquet_files)
    /\ LET merged_df == pl_concat(chunked_frames)
       IN  IF merged_df.ok
           THEN /\ output_file' = <<merged_df.frame>>
                /\ mpc' = "done"
                /\ stdout' = stdout \o <<Printed("merging all chunks", <<>>),
                                         Printed("merged file saved", <<>>)>>
                /\ UNCHANGED merge_error
           ELSE /\ mpc' = "aborted"
                /\ merge_error' = merged_df.err
                /\ stdout' = stdout \o <<Printed("merging all chunks", <<>>)>>
                /\ UNCHANGED output_file
    /\ UNCHANGED <<parquet_files, files_per_chunk, offset, chunked_frames, temp_dir,
                   temp_dir_exists, pipevars>>

MergeNext ==
    \/ MergeStart
    \/ ProcessChunk
    \/ FinalMerge

MergeSpec == MergeInit /\ [][MergeNext]_vars

-----------------------------------------------------------------------------
Init == PipeInit /\ MergeIdle

Next ==
    \/ LoadParquet
    \/ ValidateInputColumns
    \/ LoadShapefile
    \/ MapZoneIdsToCoords
    \/ ValidateData
    \/ FeatureEngineering
    \/ SaveData

Spec == Init /\ [][Next]_vars

\* The pipeline on complete trip files over the nominal zone table, with
\* zero-duration and zero-distance trips among the rows.
FeatInit ==
    /\ pc = "load_parquet"
    /\ \E trips \in TimedTripLists : parquet_file = RawFrame(trips, AllRawColumns)
    /\ shape_file = NominalZones
    /\ final_data = NoData
    /\ log = <<>>
    /\ error = NoError
    /\ written = {}
    /\ attempted = {}
    /\ MergeIdle

FeatSpec == FeatInit /\ [][Next]_vars

-----------------------------------------------------------------------------
(* Properties of the pipeline (specification Spec) *)

IdxOf(rows) == [k \in 1..Len(rows) |-> rows[k]["idx"]]

ZoneIdsOf(zones) == {zones[k].LocationID : k \in 1..Len(zones)}

\* The trip row references a zone id that the zone table does not hold.
Unresolved(r, zones) ==
    r["PULocationID"] \notin ZoneIdsOf(zones) \/ r["DOLocationID"] \notin ZoneIdsOf(zones)

UnresolvedCount(df, zones) ==
    Cardinality({k \in 1..Len(df.rows) : Unresolved(df.rows[k], zones)})

HasCentroid(id, zones) ==
    \E k \in 1..Len(zones) : zones[k].LocationID = id /\ zones[k].geometry # NoGeom

\* The trip row can be resolved: both zone ids are known and have a centroid.
Resolvable(r, zones) ==
    HasCentroid(r["PULocationID"], zones) /\ HasCentroid(r["DOLocationID"], zones)

\* C1: after map_zone_ids_to_coords and validate_data the dataset has at most
\* as many rows as the input, and no input row occurs in it twice, whatever
\* the zone table (also one that repeats a LocationID).
C1_Conservation ==
    pc = "feature_engineering" =>
        /\ Len(final_data.rows) <= Len(parquet_file.rows)
        /\ \A j, k \in 1..Len(final_data.rows) :
              j # k => final_data.rows[j]["idx"] # final_data.rows[k]["idx"]

\* C2: no row with a zone id absent from the zone table is handed to
\* save_data, and when such rows exist in the input a logged dropped-row
\* count equals their number.
C2_ReferentialDrop ==
    pc = "save_data" =>
        /\ \A k \in 1..Len(final_data.rows) : ~Unresolved(final_data.rows[k], shape_file)
        /\ UnresolvedCount(parquet_file, shape_file) > 0 =>
              \E k \in 1..Len(log) :
                  /\ log[k].level = "warning"
                  /\ \E a \in 1..Len(log[k].args) :
                        log[k].args[a] = UnresolvedCount(parquet_file, shape_file)

\* C3: on a dataset with the required columns, map_zone_ids_to_coords and
\* validate_data never raise, however many rows are unresolved, and return
\* exactly the resolvable rows.
C3_AnomaliesNonFatal ==
    /\ error.at # "map_zone_ids_to_coords"
    /\ pc = "feature_engineering" =>
          IdxOf(final_data.rows) =
              IdxOf(SelectSeq(parquet_file.rows, LAMBDA r : Resolvable(r, shape_file)))

DropListIncomplete(df) == columns_to_drop \ df.columns # {}

\* C6: when a column of the drop list is absent from the validated dataset,
\* feature_engineering raises, main ends there and neither output file is
\* written; an aborted run never resumes.
C6_SchemaDriftAbort ==
    [][/\ (pc = "feature_engineering" /\ DropListIncomplete(final_data)) =>
             /\ pc' = "aborted"
             /\ error' = Raised("KeyError", "feature_engineering")
             /\ written' = {} /\ attempted' = {}
       /\ pc = "aborted" => pc' = "aborted"]_vars

C6_Witness ==
    /\ pc = "aborted"
    /\ error = Raised("KeyError", "feature_engineering")
    /\ DropListIncomplete(final_data)
    /\ "request_datetime" \in final_data.columns
    /\ final_data.rows # <<>>
    /\ written = {}

\* C8: validate_data is idempotent on every resolved dataset, returns a
\* dataset without missing coordinates unchanged, and a validated dataset is
\* left as it is by a second run.
C8_ValidatorIdempotent ==
    /\ pc = "validate_data" =>
          /\ validate_data(validate_data(final_data)) = validate_data(final_data)
          /\ Len(validate_data(validate_data(final_data)).rows)
                = Len(validate_data(final_data).rows)
          /\ (missing_pickup(final_data) = 0 /\ missing_dropoff(final_data) = 0)
                => validate_data(final_data) = final_data
    /\ pc = "feature_engineering" => validate_data(final_data) = final_data

C8_Witness ==
    /\ pc = "validate_data"
    /\ missing_pickup(final_data) > 0
    /\ missing_dropoff(final_data) > 0
    /\ validate_data(final_data) # final_data
    /\ validate_data(final_data).rows # <<>>

\* C9: once save_data has started writing, both the CSV and the Parquet
\* write are attempted, whichever of them fails.
C9_IndependentWrites ==
    (pc \in {"done", "aborted"} /\ attempted # {}) => attempted = {"csv", "parquet"}

\* C10: feature_engineering does not fail on a dataset that has every
\* required column and every column of the drop list but no
\* request_datetime, and the output then has no wait_time column.
C10_OptionalRequestTimestamp ==
    /\ (pc = "aborted" /\ error.at = "feature_engineering"
            /\ ~DropListIncomplete(final_data))
          => "request_datetime" \in final_data.columns
    /\ (pc = "save_data" /\ "request_datetime" \notin final_data.columns)
          => "wait_time" \notin final_data.columns

-----------------------------------------------------------------------------
(* Properties of the merge (specification MergeSpec) *)

NormalizedParts ==
    [p \in 1..Len(parquet_files) |-> with_columns_cast(scan_parquet(parquet_files[p]))]

\* Every partition normalizes and all normalized schemas agree.
Mergeable ==
    /\ \A p \in 1..Len(parquet_files) : NormalizedParts[p].ok
    /\ \A p \in 1..Len(parquet_files) :
          NormalizedParts[p].frame.schema = NormalizedParts[1].frame.schema

\* C4: the merged dataset does not depend on the chunk size: when the merge
\* completes, the output holds the normalized rows of the partitions in
\* their input order, each partition's rows in their own order; and whether
\* it completes depends on the partitions alone.
C4_ChunkSizeInvariance ==
    /\ mpc = "done" =>
          /\ Mergeable
          /\ output_file[1].rows =
                FlattenSeq([p \in 1..Len(parquet_files) |-> NormalizedParts[p].frame.rows])
          /\ [k \in 1..Len(output_file[1].rows) |-> output_file[1].rows[k].src] =
                FlattenSeq([p \in 1..Len(parquet_files) |->
                               [k \in 1..parquet_files[p].nrows |-> <<p, k>>]])
    /\ mpc = "aborted" => ~Mergeable

C4_Witness ==
    /\ mpc = "done"
    /\ Len(chunked_frames) >= 2
    /\ files_per_chunk >= 2
    /\ \A k \in 1..Len(chunked_frames) : chunked_frames[k].rows # <<>>

\* The rows of the partitions that normalize, in input order.
EligibleRows ==
    FlattenSeq([p \in 1..Len(parquet_files) |->
                   IF NormalizedParts[p].ok THEN NormalizedParts[p].frame.rows ELSE <<>>])

\* C5: a partition that lacks PULocationID or DOLocationID is skipped: the
\* merge never ends with the normalization error, and the written output
\* holds the rows of the remaining partitions.
C5_PartitionRecovery ==
    /\ merge_error # "ColumnNotFoundError"
    /\ mpc = "done" => output_file[1].rows = EligibleRows

\* The partitions whose rows the merge holds in memory.
MaterializedPartitions ==
    UNION {{chunked_frames[k].rows[j].src[1] : j \in 1..Len(chunked_frames[k].rows)} :
              k \in 1..Len(chunked_frames)}

\* C7: at every point of the merge the rows of at most chunk_size partitions
\* are held in memory.
C7_BoundedMemory == Cardinality(MaterializedPartitions) <= files_per_chunk

-----------------------------------------------------------------------------
(* Properties of feature_engineering (specification FeatSpec) *)

ZeroDuration(r) == r["pickup_datetime"] = r["dropoff_datetime"]

NonFinite(v) == v[1] \in {"inf", "NaN"}

\* C11: on a complete dataset feature_engineering does not fail, keeps every
\* row, and gives each row whose pickup and dropoff timestamps are equal an
\* avg_speed that is not a finite number, whatever its trip_miles.
C11_ZeroDurationSentinel ==
    [][pc = "feature_engineering" =>
          /\ pc' = "save_data"
          /\ IdxOf(final_data'.rows) = IdxOf(final_data.rows)
          /\ \A k \in 1..Len(final_data.rows) :
                ZeroDuration(final_data.rows[k]) =>
                    /\ final_data'.rows[k]["trip_duration"] = 0
                    /\ NonFinite(final_data'.rows[k]["avg_speed"])]_vars

C11_Witness ==
    /\ pc = "save_data"
    /\ \E k \in 1..Len(final_data.rows) :
          /\ ZeroDuration(final_data.rows[k])
          /\ final_data.rows[k]["trip_miles"] = 0
          /\ final_data.rows[k]["avg_speed"] = NaN
    /\ \E k \in 1..Len(final_data.rows) :
          /\ ZeroDuration(final_data.rows[k])
          /\ final_data.rows[k]["trip_miles"] = 5
          /\ final_data.rows[k]["avg_speed"] = Inf(1)

-----------------------------------------------------------------------------
(* Further properties of the merge (specification MergeSpec) *)

\* C12: with no partition file the merge prints one line and returns: it
\* never enters the loop, raises nothing, and creates neither the merged
\* output nor an intermediate file (nor the temp directory).
C12_EmptyListNoOp ==
    /\ parquet_files = <<>> =>
          /\ mpc \in {"start", "returned"}
          /\ merge_error = "none"
          /\ output_file = <<>>
          /\ temp_dir = {}
          /\ ~temp_dir_exists
          /\ chunked_frames = <<>>
    /\ mpc = "returned" =>
          /\ parquet_files = <<>>
          /\ stdout = <<Printed("no files found", <<>>)>>

C12_Witness ==
    /\ mpc = "returned"
    /\ parquet_files = <<>>
    /\ stdout # <<>>
    /\ output_file = <<>>

NumChunks == (Len(parquet_files) + files_per_chunk - 1) \div files_per_chunk

ChunkOffsets == {(k - 1) * files_per_chunk : k \in 1..NumChunks}

\* The origins of all rows of the partitions of the chunk at offset off.
ChunkSources(off) ==
    FlattenSeq([q \in 1..Len(files_chunk(parquet_files, off, files_per_chunk)) |->
                   [k \in 1..parquet_files[off + q].nrows |-> <<off + q, k>>]])

SourcesOf(frame) == [k \in 1..Len(frame.rows) |-> frame.rows[k].src]

-----------------------------------------------------------------------------
(* Batch sizes of map_zone_ids_to_coords (specification Spec) *)

\* The output of map_zone_ids_to_coords is the same for every batch size
\* 1..MaxBatch as for the single batch the pipeline uses.
BatchSizeInvariant ==
    \A size \in 1..MaxBatch :
        MapZoneIdsToCoordsSized(parquet_file, shape_file, size)
            = map_zone_ids_to_coords(parquet_file, shape_file)

\* The surviving rows are the input rows with known zone ids, in input order.
SurvivorsInOrder ==
    IdxOf(final_data.rows) =
        IdxOf(SelectSeq(parquet_file.rows, LAMBDA r : ~Unresolved(r, shape_file)))

\* Each row carries the centroid of the zone table's entry for its pickup
\* and for its dropoff zone, and equal zones get equal coordinates.
CoordsFromIndex ==
    \A k \in 1..Len(final_data.rows) :
        LET r == final_data.rows[k]
        IN  /\ \A z \in 1..Len(shape_file) :
                  /\ shape_file[z].LocationID = r["PULocationID"] =>
                        /\ r["pickup_lat"] = Centroid(shape_file[z].geometry).y
                        /\ r["pickup_lon"] = Centroid(shape_file[z].geometry).x
                  /\ shape_file[z].LocationID = r["DOLocationID"] =>
                        /\ r["dropoff_lat"] = Centroid(shape_file[z].geometry).y
                        /\ r["dropoff_lon"] = Centroid(shape_file[z].geometry).x
            /\ r["PULocationID"] = r["DOLocationID"] =>
                  /\ r["pickup_lat"] = r["dropoff_lat"]
                  /\ r["pickup_lon"] = r["dropoff_lon"]

\* C14: for every batch size the output of map_zone_ids_to_coords equals the
\* single-batch result: the rows with known zone ids in their original
\* order, each with the centroid of its pickup and of its dropoff zone.
C14_BatchSizeInvariance ==
    pc = "validate_data" =>
        /\ BatchSizeInvariant
        /\ SurvivorsInOrder
        /\ CoordsFromIndex

====
